---- MODULE Spec2Model ----
(***************************************************************************)
(* State-machine model of the disco-ball engine: DiscoBall (src/src/       *)
(* DiscoBall.js), LightBeamSystem (src/unnamed/part_001) and RenderEngine  *)
(* (src/unnamed/part_000).                                                 *)
(*                                                                         *)
(* Numbers.  JavaScript doubles are modelled in fixed point:               *)
(*   speeds, factors, rates, colour channels : thousandths (Milli)         *)
(*   angles                                  : thousandths of a radian     *)
(*   times                                   : ninths of a millisecond     *)
(*     (so that 1000 / frameRate is a whole number for 30, 45, 60, 120)    *)
(* Products are divided back by the scale and truncated toward zero.       *)
(***************************************************************************)
EXTENDS Integers, Sequences, FiniteSets, TLC

VARIABLES
    discoBall,   \* the DiscoBall instance (DiscoBall.js:8-44)
    lightBeamSystem, \* the LightBeamSystem instance (part_001:8-59)
    renderEngine, \* the RenderEngine instance (part_000:10-36)
    host,        \* the browser: window, container, animation-frame requests
    disposed,    \* resources of the instances on which dispose() has been called
    fault,       \* TRUE once a handler has thrown
    lastCall,    \* the last public operation called, with its argument
    calls,       \* number of operations called so far
    budget,      \* number of operations the run may call
    updates      \* number of updateRotation calls made so far

vars == <<discoBall, lightBeamSystem, renderEngine, host, disposed, fault,
          lastCall, calls, budget, updates>>

----------------------------------------------------------------------------
(* Arithmetic helpers                                                      *)

Milli == 1000

Abs(a) == IF a < 0 THEN -a ELSE a

Min(a, b) == IF a < b THEN a ELSE b

Max(a, b) == IF a > b THEN a ELSE b

\* Division truncating toward zero (the sign-symmetric rounding of a double
\* product to the fixed-point grid).
TruncDiv(a, b) == IF a >= 0 THEN a \div b ELSE -((-a) \div b)

\* Fixed-point product of two Milli-scaled numbers.
Mul(a, b) == TruncDiv(a * b, Milli)

\* Time units in one millisecond and in one second.
PerMs == 9

PerSecond == 1000 * PerMs

\* a * (deltaTime * 0.001): a Milli-scaled rate over deltaTime time units.
Over(a, deltaTime) == TruncDiv(a * deltaTime, PerSecond)

----------------------------------------------------------------------------
(* Bounds of the model                                                     *)

MaxHoles == 2

MaxCalls == 5

MaxBeamCalls == 3

\* Operations called on a RenderEngine in one run.
MaxEngineCalls == 4

\* init and resize calls on a RenderEngine in one run of device detection.
MaxDeviceCalls == 3

\* Calls among which setRotationSpeed and setRotationConfig may occur before
\* only updates follow.
MaxSpeedChanges == 2

\* updateRotation calls that may follow them.
MaxSettleUpdates == 70

----------------------------------------------------------------------------
(* DiscoBall                                                               *)

InitialRotationSpeed == 1000

DefaultSpeedTransitionRate == 50

DefaultMinSpeed == 100

DefaultMaxSpeed == 5000

DefaultXAxisFactor == 100

DefaultZAxisFactor == 50

DefaultRadius == 2000

DefaultSegments == 32

\* |speed - target| > 0.01 is the transition threshold.
SpeedEpsilon == 10

PiMilli == 3142

\* Math.sin on milliradians, result in thousandths.  Range reduction to
\* [0, 2*pi) followed by Bhaskara's rational approximation on [0, pi].
SinHalf(x) ==
    LET q == (x * (PiMilli - x)) \div Milli
    IN  (16 * q * Milli) \div ((5 * PiMilli * PiMilli) \div Milli - 4 * q)

Sin(a) ==
    LET r == a % (2 * PiMilli)
    IN  IF r <= PiMilli THEN SinHalf(r) ELSE -SinHalf(r - PiMilli)

\* THREE.MathUtils.lerp(x, y, t) = (1 - t) * x + t * y
Lerp(x, y, t) == x + Mul(t, y - x)

NullMesh == [ref |-> "null", position |-> <<0, 0, 0>>,
             rotation |-> <<0, 0, 0>>, children |-> 0]

\* One aperture record.  The Fibonacci unit vector of index i among n is kept
\* symbolically as <<i, n>>; the position is that vector scaled by the radius.
Hole(i, n, radius) ==
    [id |-> i,
     direction |-> <<i, n>>,
     position |-> [unit |-> <<i, n>>, scale |-> radius],
     normal |-> <<i, n>>]

\* Mutant of GenerateHoles: the ids start at 1.
GenerateHolesOneBased(cfg) ==
    [k \in 1..cfg.holes |-> Hole(k, cfg.holes, cfg.radius)]

\* generateHoles: the list is rebuilt from config.holes and config.radius.
GenerateHoles(cfg) ==
    [k \in 1..cfg.holes |-> Hole(k - 1, cfg.holes, cfg.radius)]

DefaultRotationConfig ==
    [speedTransitionRate |-> DefaultSpeedTransitionRate,
     minSpeed |-> DefaultMinSpeed,
     maxSpeed |-> DefaultMaxSpeed,
     xAxisFactor |-> DefaultXAxisFactor,
     zAxisFactor |-> DefaultZAxisFactor]

\* new DiscoBall(cfg): constructor followed by init().
NewDiscoBall(cfg) ==
    LET hs == GenerateHoles(cfg)
    IN  [constructed |-> TRUE,
         config |-> cfg,
         geometry |-> "SphereGeometry",
         material |-> "MeshPhysicalMaterial",
         mesh |-> [ref |-> "Mesh", position |-> <<0, 0, 0>>,
                   rotation |-> <<0, 0, 0>>, children |-> Len(hs)],
         holes |-> hs,
         rotationSpeed |-> InitialRotationSpeed,
         targetRotationSpeed |-> InitialRotationSpeed,
         rotationDirection |-> 1,
         currentRotation |-> [x |-> 0, y |-> 0, z |-> 0],
         rotationConfig |-> DefaultRotationConfig]

\* The config a DiscoBall gets when only the hole count is given:
\* radius: config.radius || 2, segments: config.segments || 32.
BallConfig(nHoles) ==
    [radius |-> DefaultRadius, segments |-> DefaultSegments, holes |-> nHoles]

\* No DiscoBall has been constructed.
NoDiscoBall ==
    [constructed |-> FALSE,
     config |-> BallConfig(0),
     geometry |-> "null",
     material |-> "null",
     mesh |-> NullMesh,
     holes |-> << >>,
     rotationSpeed |-> InitialRotationSpeed,
     targetRotationSpeed |-> InitialRotationSpeed,
     rotationDirection |-> 1,
     currentRotation |-> [x |-> 0, y |-> 0, z |-> 0],
     rotationConfig |-> DefaultRotationConfig]

\* Mutant of ClampSpeed: the lower bound is forgotten.
ClampSpeedNoFloor(rc, speed) == Min(rc.maxSpeed, speed)

\* Math.max(minSpeed, Math.min(maxSpeed, speed))
ClampSpeed(rc, speed) == Max(rc.minSpeed, Min(rc.maxSpeed, speed))

\* Mutant of UpdateRotationSpeed: the interpolation factor is not capped at 1.
UpdateRotationSpeedUncapped(db, deltaTime) ==
    IF Abs(db.rotationSpeed - db.targetRotationSpeed) > SpeedEpsilon
    THEN Lerp(db.rotationSpeed, db.targetRotationSpeed,
              Over(db.rotationConfig.speedTransitionRate, deltaTime))
    ELSE db.targetRotationSpeed

\* Mutant of UpdateRotationSpeed: within the tolerance the speed is left as it
\* is instead of being set to the target.
UpdateRotationSpeedNoSnap(db, deltaTime) ==
    IF Abs(db.rotationSpeed - db.targetRotationSpeed) > SpeedEpsilon
    THEN LET transitionRate == Over(db.rotationConfig.speedTransitionRate, deltaTime)
         IN  Lerp(db.rotationSpeed, db.targetRotationSpeed, Min(transitionRate, Milli))
    ELSE db.rotationSpeed

\* updateRotationSpeed(deltaTime): the new rotationSpeed.
UpdateRotationSpeed(db, deltaTime) ==
    IF Abs(db.rotationSpeed - db.targetRotationSpeed) > SpeedEpsilon
    THEN LET transitionRate == Over(db.rotationConfig.speedTransitionRate, deltaTime)
         IN  Lerp(db.rotationSpeed, db.targetRotationSpeed, Min(transitionRate, Milli))
    ELSE db.targetRotationSpeed

\* updateRotation(deltaTime): the DiscoBall after the call.
UpdateRotation(db, deltaTime) ==
    IF db.mesh.ref = "null" THEN db
    ELSE LET speed == UpdateRotationSpeed(db, deltaTime)
             rotationDelta == Over(speed * db.rotationDirection, deltaTime)
             y == db.currentRotation.y + rotationDelta
             x == db.currentRotation.x + Mul(rotationDelta, db.rotationConfig.xAxisFactor)
             z == db.currentRotation.z
                    + Mul(Mul(Sin(y * 2), db.rotationConfig.zAxisFactor), rotationDelta)
         IN  [db EXCEPT !.rotationSpeed = speed,
                        !.currentRotation = [x |-> x, y |-> y, z |-> z],
                        !.mesh.rotation = <<x, y, z>>]

\* setRotationSpeed(speed)
SetRotationSpeed(db, speed) ==
    [db EXCEPT !.targetRotationSpeed = ClampSpeed(db.rotationConfig, speed)]

\* setRotationSpeedImmediate(speed)
SetRotationSpeedImmediate(db, speed) ==
    LET clampedSpeed == ClampSpeed(db.rotationConfig, speed)
    IN  [db EXCEPT !.rotationSpeed = clampedSpeed,
                   !.targetRotationSpeed = clampedSpeed]

\* Mutant of SetRotationDirection: the argument is stored as given.
SetRotationDirectionRaw(db, direction) ==
    [db EXCEPT !.rotationDirection = direction]

\* setRotationDirection(direction)
SetRotationDirection(db, direction) ==
    [db EXCEPT !.rotationDirection = IF direction > 0 THEN 1 ELSE -1]

\* setRotationConfig(config): { ...this.rotationConfig, ...config }
SetRotationConfig(db, patch) ==
    [db EXCEPT !.rotationConfig =
        [f \in DOMAIN db.rotationConfig |->
            IF f \in DOMAIN patch THEN patch[f] ELSE db.rotationConfig[f]]]

\* getRotationState()
GetRotationState(db) ==
    [speed |-> db.rotationSpeed,
     targetSpeed |-> db.targetRotationSpeed,
     direction |-> db.rotationDirection,
     currentRotation |-> db.currentRotation,
     isTransitioning |-> Abs(db.rotationSpeed - db.targetRotationSpeed) > SpeedEpsilon,
     config |-> db.rotationConfig]

\* Mutant of DiscoBallDisposed: the geometry reference is kept.
DiscoBallDisposedKeepsGeometry(db) ==
    [db EXCEPT !.material = "null", !.mesh = NullMesh, !.holes = << >>]

\* DiscoBall.dispose(): the instance after the call.
DiscoBallDisposed(db) ==
    [db EXCEPT !.geometry = "null",
               !.material = "null",
               !.mesh = NullMesh,
               !.holes = << >>]

\* DiscoBall.dispose(): the resources it calls dispose() on.
DiscoBallReleases(db) ==
    (IF db.geometry # "null" THEN {db.geometry} ELSE {})
        \cup (IF db.material # "null" THEN {db.material} ELSE {})

----------------------------------------------------------------------------
(* LightBeamSystem                                                         *)

DefaultBeamLength == 8

DefaultBeamOpacity == 800

DefaultBeamIntensity == 2000

DefaultAnimationSpeed == 20

\* beam.currentColor.lerp(targetColor, 0.05)
ColorBlend == 50

\* Math.random() < 0.01 decides a re-roll; the draw is an input here.

\* Colours are <<r, g, b>> with channels in thousandths.
White == <<1000, 1000, 1000>>

\* The 0x80 channel of the palette in the renderer's linear working space.
HalfChannel == 216

\* this.rainbowColors: red, orange, yellow, green, cyan, blue, violet.
RainbowColors ==
    << <<1000, 0, 0>>, <<1000, HalfChannel, 0>>, <<1000, 1000, 0>>,
       <<0, 1000, 0>>, <<0, 1000, 1000>>, <<0, HalfChannel, 1000>>,
       <<HalfChannel, 0, 1000>> >>

\* Color.lerp(target, alpha)
ColorLerp(c, target, alpha) ==
    [i \in 1..3 |-> c[i] + Mul(alpha, target[i] - c[i])]

\* JavaScript's %: the remainder takes the sign of the dividend.
JsMod(a, m) == a - m * TruncDiv(a, m)

\* getRainbowColor(t): colorIndex, in thousandths of a palette step.
RainbowColorIndex(t) ==
    JsMod(JsMod(t, Milli) + Milli, Milli) * (Len(RainbowColors) - 1)

\* getRainbowColor(t): lowerIndex = Math.floor(colorIndex)
RainbowLowerIndex(t) == RainbowColorIndex(t) \div Milli

\* getRainbowColor(t): upperIndex % rainbowColors.length, with
\* upperIndex = Math.ceil(colorIndex)
RainbowUpperIndex(t) ==
    ((RainbowColorIndex(t) + Milli - 1) \div Milli) % Len(RainbowColors)

\* getRainbowColor(t)
GetRainbowColor(t) ==
    LET factor     == RainbowColorIndex(t) - RainbowLowerIndex(t) * Milli
        lowerColor == RainbowColors[RainbowLowerIndex(t) + 1]
        upperColor == RainbowColors[RainbowUpperIndex(t) + 1]
    IN  ColorLerp(lowerColor, upperColor, factor)

\* The three.js vectors of a beam are kept symbolically.
\* A position: the aperture vector v turned by the Euler rotation rot and
\* moved by offset (v.applyQuaternion(q).add(p)).
Placed(v, rot, offset) == [v |-> v, rot |-> rot, offset |-> offset]

\* An orientation: quaternion.setFromUnitVectors((0,1,0), dir turned by rot).
FromUp(dir, rot) == [from |-> "up", to |-> dir, rot |-> rot]

Origin == <<0, 0, 0>>

\* One draw of Math.random() in updateColors: whether it fell below 0.01 and
\* the colour setHSL(Math.random(), 1.0, 0.5) then gives.
NoReroll == [reroll |-> FALSE, color |-> White]

\* updateColors(): the beams after the call.
UpdateColors(lbs, rnd) ==
    [k \in 1..Len(lbs.beams) |->
        LET beam == lbs.beams[k]
            targetColor ==
                IF lbs.config.colorMode = "rainbow"
                THEN GetRainbowColor(beam.colorOffset + lbs.colorTime)
                ELSE IF lbs.config.colorMode = "random"
                     THEN beam.randomColorTarget
                     ELSE White
            current == ColorLerp(beam.currentColor, targetColor, ColorBlend)
        IN  [beam EXCEPT
                !.randomColorTarget =
                    IF lbs.config.colorMode = "random" /\ rnd.reroll
                    THEN rnd.color ELSE @,
                !.currentColor = current,
                !.material.uniforms.color = current]]

\* Mutant of CreateBeamRecords: the last aperture gets no beam.
CreateBeamRecordsShort(lbs, holes, randomColor) ==
    [k \in 1..(IF Len(holes) > 0 THEN Len(holes) - 1 ELSE 0) |->
        [id |-> k - 1,
         mesh |-> [position |-> Placed(holes[k].position, Origin, Origin),
                   quaternion |-> FromUp(holes[k].direction, Origin)],
         material |-> [name |-> "ShaderMaterial#" \o ToString(k - 1),
                       uniforms |-> [color |-> White,
                                     opacity |-> lbs.config.beamOpacity,
                                     intensity |-> lbs.config.beamIntensity,
                                     time |-> 0]],
         hole |-> holes[k].id,
         baseColor |-> White,
         currentColor |-> White,
         colorOffset |-> ((k - 1) * Milli) \div Len(holes),
         randomColorTarget |-> randomColor]]

\* createBeams(), the forEach: one beam record per aperture.
CreateBeamRecords(lbs, holes, randomColor) ==
    [k \in 1..Len(holes) |->
        [id |-> k - 1,
         mesh |-> [position |-> Placed(holes[k].position, Origin, Origin),
                   quaternion |-> FromUp(holes[k].direction, Origin)],
         material |-> [name |-> "ShaderMaterial#" \o ToString(k - 1),
                       uniforms |-> [color |-> White,
                                     opacity |-> lbs.config.beamOpacity,
                                     intensity |-> lbs.config.beamIntensity,
                                     time |-> 0]],
         hole |-> holes[k].id,
         baseColor |-> White,
         currentColor |-> White,
         colorOffset |-> ((k - 1) * Milli) \div Len(holes),
         randomColorTarget |-> randomColor]]

\* createBeams(): beams pushed, meshes added to the group, colours initialised.
CreateBeams(lbs, db, randomColor) ==
    LET made  == lbs.beams \o CreateBeamRecords(lbs, db.holes, randomColor)
        added == [lbs EXCEPT !.beams = made,
                             !.beamGroup.children = @ + Len(made) - Len(lbs.beams)]
    IN  [added EXCEPT !.beams = UpdateColors(added, NoReroll)]

\* The config a LightBeamSystem gets when none is given (part_001:12-29).
DefaultBeamConfig ==
    [beamLength |-> DefaultBeamLength,
     beamOpacity |-> DefaultBeamOpacity,
     beamIntensity |-> DefaultBeamIntensity,
     colorMode |-> "rainbow",
     animationSpeed |-> DefaultAnimationSpeed]

EmptyGroup == [children |-> 0, visible |-> TRUE,
               position |-> Origin, rotation |-> Origin]

\* new LightBeamSystem(discoBall, cfg): constructor followed by init().
NewLightBeamSystem(db, cfg, randomColor) ==
    CreateBeams(
        [constructed |-> TRUE,
         discoBall |-> "DiscoBall",
         config |-> cfg,
         beams |-> << >>,
         beamGroup |-> EmptyGroup,
         colorTime |-> 0,
         beamMaterial |-> "ShaderMaterial",
         beamGeometry |-> "CylinderGeometry"],
        db, randomColor)

\* No LightBeamSystem has been constructed.
NoLightBeamSystem ==
    [constructed |-> FALSE,
     discoBall |-> "null",
     config |-> DefaultBeamConfig,
     beams |-> << >>,
     beamGroup |-> EmptyGroup,
     colorTime |-> 0,
     beamMaterial |-> "null",
     beamGeometry |-> "null"]

\* Mutant of SyncWithDiscoBall: the apertures are placed without the mesh's
\* rotation.
SyncWithDiscoBallUnrotated(lbs, db) ==
    IF lbs.discoBall = "null" \/ db.mesh.ref = "null" THEN lbs.beams
    ELSE [k \in 1..Len(lbs.beams) |->
            IF k - 1 >= Len(db.holes) THEN lbs.beams[k]
            ELSE [lbs.beams[k] EXCEPT
                    !.mesh.position =
                        Placed(db.holes[k].position, Origin, db.mesh.position),
                    !.mesh.quaternion =
                        FromUp(db.holes[k].direction, db.mesh.rotation)]]

\* syncWithDiscoBall(): the beams after the call.
SyncWithDiscoBall(lbs, db) ==
    IF lbs.discoBall = "null" \/ db.mesh.ref = "null" THEN lbs.beams
    ELSE [k \in 1..Len(lbs.beams) |->
            IF k - 1 >= Len(db.holes) THEN lbs.beams[k]
            ELSE [lbs.beams[k] EXCEPT
                    !.mesh.position =
                        Placed(db.holes[k].position, db.mesh.rotation, db.mesh.position),
                    !.mesh.quaternion =
                        FromUp(db.holes[k].direction, db.mesh.rotation)]]

\* update(deltaTime): the calls it makes on the beams, in their order.
UpdateSteps == <<"updateColors", "syncWithDiscoBall">>

\* update(deltaTime)
LbsUpdate(lbs, db, deltaTime, rnd) ==
    LET colorTime == lbs.colorTime + Over(lbs.config.animationSpeed, deltaTime)
        timed == [lbs EXCEPT
                    !.colorTime = colorTime,
                    !.beams = [k \in 1..Len(lbs.beams) |->
                                 [lbs.beams[k] EXCEPT !.material.uniforms.time = colorTime]]]
        coloured == [timed EXCEPT !.beams = UpdateColors(timed, rnd)]
    IN  [coloured EXCEPT !.beams = SyncWithDiscoBall(coloured, db)]

ColorModes == {"rainbow", "random", "white"}

\* Mutant of SetColorMode: the mode is stored without the membership test.
SetColorModeUnchecked(lbs, mode) ==
    [lbs EXCEPT !.config.colorMode = mode]

\* setColorMode(mode)
SetColorMode(lbs, mode) ==
    IF mode \in ColorModes
    THEN [lbs EXCEPT !.config.colorMode = mode]
    ELSE lbs

\* setIntensity(intensity)
SetIntensity(lbs, intensity) ==
    LET v == Max(0, intensity)
    IN  [lbs EXCEPT
            !.config.beamIntensity = v,
            !.beams = [k \in 1..Len(lbs.beams) |->
                         [lbs.beams[k] EXCEPT !.material.uniforms.intensity = v]]]

\* Mutant of SetOpacity: the upper bound 1 is forgotten.
SetOpacityNoCeiling(lbs, opacity) ==
    LET v == Max(0, opacity)
    IN  [lbs EXCEPT
            !.config.beamOpacity = v,
            !.beams = [k \in 1..Len(lbs.beams) |->
                         [lbs.beams[k] EXCEPT !.material.uniforms.opacity = v]]]

\* setOpacity(opacity)
SetOpacity(lbs, opacity) ==
    LET v == Max(0, Min(Milli, opacity))
    IN  [lbs EXCEPT
            !.config.beamOpacity = v,
            !.beams = [k \in 1..Len(lbs.beams) |->
                         [lbs.beams[k] EXCEPT !.material.uniforms.opacity = v]]]

\* setAnimationSpeed(speed)
SetAnimationSpeed(lbs, speed) ==
    [lbs EXCEPT !.config.animationSpeed = Max(0, speed)]

\* setVisible(visible)
SetVisible(lbs, visible) ==
    [lbs EXCEPT !.beamGroup.visible = visible]

\* LightBeamSystem.dispose(): the instance after the call.
LbsDisposed(lbs) ==
    [lbs EXCEPT !.beamGeometry = "null",
                !.beamMaterial = "null",
                !.beams = << >>,
                !.beamGroup.children = 0]

\* LightBeamSystem.dispose(): the resources it calls dispose() on.
LbsReleases(lbs) ==
    (IF lbs.beamGeometry # "null" THEN {lbs.beamGeometry} ELSE {})
        \cup {lbs.beams[k].material.name : k \in 1..Len(lbs.beams)}
        \cup (IF lbs.beamMaterial # "null" THEN {lbs.beamMaterial} ELSE {})

----------------------------------------------------------------------------
(* RenderEngine (src/unnamed/part_000)                                     *)

DefaultFrameRate == 60

MinFrameRate == 30

MaxFrameRate == 120

\* holes: 50 in createDiscoBall
EngineHoles == 50

\* width * height * pixelRatio above this is more than 1920x1080
PixelBudget == 2073600

\* { ...a, ...b }
Merge(a, b) ==
    [k \in DOMAIN a \cup DOMAIN b |-> IF k \in DOMAIN b THEN b[k] ELSE a[k]]

\* The browser around the engine: the window's metrics and user agent, the
\* container element, whether onWindowResize is registered on window, the
\* animation-frame requests neither run nor cancelled, the clock that stamps
\* them, and what the engine has asked of it: frames drawn by
\* renderer.render, the total deltaTime handed to updateAnimations, and the
\* steps the last render() call ran, in their order.
NewHost(viewport, userAgent) ==
    [innerWidth |-> viewport.width,
     innerHeight |-> viewport.height,
     devicePixelRatio |-> viewport.pixelRatio,
     userAgent |-> userAgent,
     clientWidth |-> viewport.width,
     clientHeight |-> viewport.height,
     canvases |-> 0,
     resizeListener |-> FALSE,
     requests |-> {},
     nextRequest |-> 1,
     now |-> 0,
     rendered |-> 0,
     animated |-> 0,
     frame |-> << >>]

\* The window and the container filling it take the size of viewport.
Resized(h, viewport) ==
    [h EXCEPT !.innerWidth = viewport.width,
              !.innerHeight = viewport.height,
              !.devicePixelRatio = viewport.pixelRatio,
              !.clientWidth = viewport.width,
              !.clientHeight = viewport.height]

\* Mutant of DetectDevice: a pixel area equal to the budget already downgrades.
DetectDeviceAtBudget(h) ==
    LET width == h.innerWidth
        height == h.innerHeight
        pixelRatio == IF h.devicePixelRatio = 0 THEN Milli ELSE h.devicePixelRatio
        isMobile == h.userAgent = "iphone"
        isTablet == FALSE
        screenSize ==
            IF width <= 480 THEN "mobile"
            ELSE IF width <= 768 THEN "tablet"
            ELSE IF width <= 1024 THEN "small-desktop"
            ELSE "desktop"
        downgraded ==
            \/ isMobile
            \/ pixelRatio > 2 * Milli
            \/ width * height * (pixelRatio \div 100) >= PixelBudget * 10
        performanceLevel ==
            IF width <= 480 /\ pixelRatio > 2 * Milli THEN "low"
            ELSE IF downgraded THEN "medium"
            ELSE "high"
    IN  [isMobile |-> isMobile,
         isTablet |-> isTablet,
         isDesktop |-> ~isMobile /\ ~isTablet,
         screenSize |-> screenSize,
         width |-> width,
         height |-> height,
         pixelRatio |-> pixelRatio,
         performanceLevel |-> performanceLevel,
         aspectRatio |-> <<width, height>>]

\* detectDevice()
DetectDevice(h) ==
    LET width == h.innerWidth
        height == h.innerHeight
        pixelRatio == IF h.devicePixelRatio = 0 THEN Milli ELSE h.devicePixelRatio
        isMobile == h.userAgent = "iphone"
        isTablet == FALSE
        screenSize ==
            IF width <= 480 THEN "mobile"
            ELSE IF width <= 768 THEN "tablet"
            ELSE IF width <= 1024 THEN "small-desktop"
            ELSE "desktop"
        downgraded ==
            \/ isMobile
            \/ pixelRatio > 2 * Milli
            \/ width * height * (pixelRatio \div 100) > PixelBudget * 10
        performanceLevel ==
            IF width <= 480 /\ pixelRatio > 2 * Milli THEN "low"
            ELSE IF downgraded THEN "medium"
            ELSE "high"
    IN  [isMobile |-> isMobile,
         isTablet |-> isTablet,
         isDesktop |-> ~isMobile /\ ~isTablet,
         screenSize |-> screenSize,
         width |-> width,
         height |-> height,
         pixelRatio |-> pixelRatio,
         performanceLevel |-> performanceLevel,
         aspectRatio |-> <<width, height>>]

\* getResponsiveConfig(): baseConfig. near is in thousandths.
BaseConfig(h) ==
    [pixelRatio |-> Min(h.devicePixelRatio, 2 * Milli),
     antialias |-> TRUE,
     shadowMapSize |-> 2048,
     fov |-> 75,
     near |-> 100,
     far |-> 1000,
     cameraDistance |-> 8,
     targetFPS |-> 60,
     enableShadows |-> TRUE,
     enableFog |-> TRUE]

\* getResponsiveConfig(): sizeConfig[screenSize]
SizeConfig(screenSize, h) ==
    CASE screenSize = "mobile" ->
            [pixelRatio |-> Min(h.devicePixelRatio, 1500),
             shadowMapSize |-> 1024,
             targetFPS |-> 30,
             cameraDistance |-> 6,
             fov |-> 80]
      [] screenSize = "tablet" ->
            [pixelRatio |-> Min(h.devicePixelRatio, 2 * Milli),
             shadowMapSize |-> 1024,
             targetFPS |-> 45,
             cameraDistance |-> 7,
             fov |-> 75]
      [] screenSize = "small-desktop" ->
            [cameraDistance |-> 8,
             fov |-> 75]
      [] OTHER ->
            [shadowMapSize |-> 2048,
             targetFPS |-> 60,
             cameraDistance |-> 8,
             fov |-> 75]

\* getResponsiveConfig(): performanceConfig[performanceLevel]
PerformanceConfig(performanceLevel, h) ==
    CASE performanceLevel = "low" ->
            [pixelRatio |-> Milli,
             antialias |-> FALSE,
             shadowMapSize |-> 512,
             targetFPS |-> 30,
             enableShadows |-> FALSE,
             enableFog |-> FALSE]
      [] performanceLevel = "medium" ->
            [pixelRatio |-> Min(h.devicePixelRatio, 1500),
             shadowMapSize |-> 1024,
             targetFPS |-> 45,
             enableShadows |-> TRUE]
      [] OTHER ->
            [pixelRatio |-> Min(h.devicePixelRatio, 2 * Milli),
             shadowMapSize |-> 2048,
             targetFPS |-> 60,
             enableShadows |-> TRUE]

\* getResponsiveConfig()
GetResponsiveConfig(deviceInfo, h) ==
    Merge(Merge(BaseConfig(h), SizeConfig(deviceInfo.screenSize, h)),
          PerformanceConfig(deviceInfo.performanceLevel, h))

\* getLightBeamConfig()
GetLightBeamConfig(deviceInfo) ==
    Merge(DefaultBeamConfig,
          CASE deviceInfo.performanceLevel = "low" ->
                  [beamLength |-> 6, beamOpacity |-> 600,
                   beamIntensity |-> 1500, animationSpeed |-> 15]
            [] deviceInfo.performanceLevel = "medium" ->
                  [beamLength |-> 7, beamOpacity |-> 700,
                   beamIntensity |-> 1800, animationSpeed |-> 18]
            [] OTHER ->
                  [beamLength |-> 8, beamOpacity |-> 800,
                   beamIntensity |-> 2000, animationSpeed |-> 20])

\* getBallRadius(): baseRadius * sizeMultipliers[screenSize], in thousandths
GetBallRadius(deviceInfo) ==
    CASE deviceInfo.screenSize = "mobile" -> Mul(DefaultRadius, 1200)
      [] deviceInfo.screenSize = "tablet" -> Mul(DefaultRadius, 1100)
      [] OTHER -> Mul(DefaultRadius, 1000)

\* getBallSegments()
GetBallSegments(deviceInfo) ==
    CASE deviceInfo.performanceLevel = "low" -> 16
      [] deviceInfo.performanceLevel = "medium" -> 24
      [] OTHER -> 32

NullScene == [ref |-> "null", fog |-> FALSE, children |-> << >>]

NullCamera == [ref |-> "null", fov |-> 0, aspect |-> <<0, 0>>, z |-> 0]

NullRenderer ==
    [ref |-> "null", antialias |-> FALSE, size |-> <<0, 0>>, pixelRatio |-> 0,
     shadowMapEnabled |-> FALSE, attached |-> FALSE]

\* new RenderEngine(container)
NewRenderEngine(h) ==
    [scene |-> NullScene,
     camera |-> NullCamera,
     renderer |-> NullRenderer,
     animationId |-> 0,
     isInitialized |-> FALSE,
     frameRate |-> DefaultFrameRate,
     lastTime |-> 0,
     frameInterval |-> PerSecond \div DefaultFrameRate,
     deviceInfo |-> DetectDevice(h),
     responsiveConfig |-> GetResponsiveConfig(DetectDevice(h), h),
     discoBall |-> "null",
     lightBeamSystem |-> "null"]

\* createScene()
CreateScene == [ref |-> "Scene", fog |-> TRUE, children |-> << >>]

\* createCamera()
CreateCamera(h) ==
    [ref |-> "PerspectiveCamera", fov |-> 75,
     aspect |-> <<h.clientWidth, h.clientHeight>>, z |-> 8]

\* createRenderer(): the renderer, its canvas appended to the container.
CreateRenderer(config, h) ==
    [ref |-> "WebGLRenderer",
     antialias |-> config.antialias,
     size |-> <<h.clientWidth, h.clientHeight>>,
     pixelRatio |-> config.pixelRatio,
     shadowMapEnabled |-> config.enableShadows,
     attached |-> TRUE]

\* An object of the scene. castShadow is "undefined" on an AmbientLight;
\* shadowMapSize 0 stands for an object with no shadow of its own.
SceneObject(name, isLight, castShadow, shadowMapSize, geometry, material) ==
    [name |-> name, isLight |-> isLight, castShadow |-> castShadow,
     shadowMapSize |-> shadowMapSize, geometry |-> geometry, material |-> material]

\* setupLighting(): the three lights added to the scene.
SetupLighting(scene) ==
    [scene EXCEPT !.children = @ \o
        << SceneObject("AmbientLight", TRUE, "undefined", 0, "null", "null"),
           SceneObject("DirectionalLight", TRUE, "true", 2048, "null", "null"),
           SceneObject("FillLight", TRUE, "false", 512, "null", "null") >>]

\* scene.add(object)
SceneAdd(scene, object) == [scene EXCEPT !.children = Append(@, object)]

\* Mutant of SetFrameRate: the argument is stored without the clamp.
SetFrameRateUnclamped(e, fps) ==
    [e EXCEPT !.frameRate = fps,
              !.frameInterval = PerSecond \div fps]

\* setFrameRate(fps)
SetFrameRate(e, fps) ==
    LET frameRate == Max(MinFrameRate, Min(MaxFrameRate, fps))
    IN  [e EXCEPT !.frameRate = frameRate,
                  !.frameInterval = PerSecond \div frameRate]

\* applyResponsiveSettings()
ApplyResponsiveSettings(e) ==
    IF e.renderer.ref = "null" \/ e.camera.ref = "null" THEN e
    ELSE
      LET config == e.responsiveConfig
          toggled == config.enableShadows # e.renderer.shadowMapEnabled
          relit(child) ==
              IF child.isLight /\ child.castShadow # "undefined"
              THEN [child EXCEPT
                      !.castShadow = IF config.enableShadows THEN "true" ELSE "false",
                      !.shadowMapSize = IF @ # 0 THEN config.shadowMapSize ELSE @]
              ELSE child
          applied ==
              [e EXCEPT
                  !.renderer.pixelRatio = config.pixelRatio,
                  !.renderer.shadowMapEnabled = config.enableShadows,
                  !.scene.children =
                      IF toggled
                      THEN [k \in 1..Len(e.scene.children) |-> relit(e.scene.children[k])]
                      ELSE @,
                  !.scene.fog = config.enableFog,
                  !.camera.fov = config.fov,
                  !.camera.z = config.cameraDistance]
      IN  SetFrameRate(applied, config.targetFPS)

\* updateDeviceInfo()
UpdateDeviceInfo(e, h) ==
    LET deviceInfo == DetectDevice(h)
        detected == [e EXCEPT !.deviceInfo = deviceInfo,
                              !.responsiveConfig = GetResponsiveConfig(deviceInfo, h)]
    IN  IF \/ e.deviceInfo.screenSize # deviceInfo.screenSize
           \/ e.deviceInfo.performanceLevel # deviceInfo.performanceLevel
        THEN ApplyResponsiveSettings(detected)
        ELSE detected

\* onWindowResize(): the engine after the call.
OnWindowResize(e, h) ==
    IF ~e.isInitialized THEN e
    ELSE LET updated == UpdateDeviceInfo(e, h)
         IN  [updated EXCEPT
                !.camera.aspect = <<h.clientWidth, h.clientHeight>>,
                !.renderer.size = <<h.clientWidth, h.clientHeight>>,
                !.renderer.pixelRatio = updated.responsiveConfig.pixelRatio]

\* onWindowResize() dereferences this.camera and this.renderer unguarded.
OnWindowResizeThrows(e) ==
    e.isInitialized /\ (e.camera.ref = "null" \/ e.renderer.ref = "null")

\* cancelAnimationFrame(id)
CancelAnimationFrame(h, id) == [h EXCEPT !.requests = @ \ {id}]

\* requestAnimationFrame(this.render): the id returned is h.nextRequest.
RequestAnimationFrame(h) ==
    [h EXCEPT !.requests = @ \cup {h.nextRequest}, !.nextRequest = @ + 1]

\* Mutant of Render: the frame-interval test is dropped, every tick works.
RenderUnpaced(e, h, ball, beams, currentTime, rnd) ==
    LET deltaTime == currentTime - e.lastTime
        due == deltaTime >= 0
        turned == IF due /\ e.discoBall # "null"
                  THEN UpdateRotation(ball, deltaTime) ELSE ball
        lit == IF due /\ e.lightBeamSystem # "null"
               THEN LbsUpdate(beams, turned, deltaTime, rnd) ELSE beams
        drawn == /\ due
                 /\ e.isInitialized
                 /\ e.scene.ref # "null"
                 /\ e.camera.ref # "null"
                 /\ e.renderer.ref # "null"
        steps == (IF due /\ e.discoBall # "null"
                  THEN <<"updateRotation">> ELSE << >>)
                    \o (IF due /\ e.lightBeamSystem # "null"
                        THEN UpdateSteps ELSE << >>)
                    \o (IF drawn THEN <<"renderer.render">> ELSE << >>)
    IN  [engine |-> [e EXCEPT
                        !.animationId = h.nextRequest,
                        !.lastTime = IF due
                                     THEN currentTime - (deltaTime % e.frameInterval)
                                     ELSE @],
         host |-> [RequestAnimationFrame(h) EXCEPT
                        !.rendered = IF drawn THEN @ + 1 ELSE @,
                        !.animated = IF due THEN @ + deltaTime ELSE @,
                        !.frame = steps],
         discoBall |-> turned,
         lightBeamSystem |-> lit,
         turns |-> IF due /\ e.discoBall # "null" THEN 1 ELSE 0]

\* render(currentTime) with updateAnimations(deltaTime) inside it: the engine,
\* its host, its disco ball and its beam system after the call.
Render(e, h, ball, beams, currentTime, rnd) ==
    LET deltaTime == currentTime - e.lastTime
        due == deltaTime >= e.frameInterval
        turned == IF due /\ e.discoBall # "null"
                  THEN UpdateRotation(ball, deltaTime) ELSE ball
        lit == IF due /\ e.lightBeamSystem # "null"
               THEN LbsUpdate(beams, turned, deltaTime, rnd) ELSE beams
        drawn == /\ due
                 /\ e.isInitialized
                 /\ e.scene.ref # "null"
                 /\ e.camera.ref # "null"
                 /\ e.renderer.ref # "null"
        steps == (IF due /\ e.discoBall # "null"
                  THEN <<"updateRotation">> ELSE << >>)
                    \o (IF due /\ e.lightBeamSystem # "null"
                        THEN UpdateSteps ELSE << >>)
                    \o (IF drawn THEN <<"renderer.render">> ELSE << >>)
    IN  [engine |-> [e EXCEPT
                        !.animationId = h.nextRequest,
                        !.lastTime = IF due
                                     THEN currentTime - (deltaTime % e.frameInterval)
                                     ELSE @],
         host |-> [RequestAnimationFrame(h) EXCEPT
                        !.rendered = IF drawn THEN @ + 1 ELSE @,
                        !.animated = IF due THEN @ + deltaTime ELSE @,
                        !.frame = steps],
         discoBall |-> turned,
         lightBeamSystem |-> lit,
         turns |-> IF due /\ e.discoBall # "null" THEN 1 ELSE 0]

\* Mutant of StopRenderLoop: animationId is forgotten, the request is left.
StopRenderLoopNoCancel(e, h) ==
    [engine |-> [e EXCEPT !.animationId = 0], host |-> h]

\* stopRenderLoop(): the engine and its host after the call.
StopRenderLoop(e, h) ==
    IF e.animationId # 0
    THEN [engine |-> [e EXCEPT !.animationId = 0],
          host |-> CancelAnimationFrame(h, e.animationId)]
    ELSE [engine |-> e, host |-> h]

\* startRenderLoop(): cancel the request held, then render().
StartRenderLoop(e, h, ball, beams, rnd) ==
    Render(e,
           IF e.animationId # 0 THEN CancelAnimationFrame(h, e.animationId) ELSE h,
           ball, beams, 0, rnd)

\* RenderEngine.dispose(): the resources it calls dispose() on, beyond those
\* its disco ball and its beam system release themselves.
EngineReleases(e) ==
    (IF e.renderer.ref # "null" THEN {e.renderer.ref} ELSE {})
        \cup UNION { {e.scene.children[k].geometry, e.scene.children[k].material}
                        \ {"null"} : k \in 1..Len(e.scene.children) }

\* RenderEngine.dispose(): the disco ball and the beam system as they are
\* on entry, after the block that disposes the disco ball, and after the
\* block that disposes the beam system, in the order the code runs them.
DisposeSteps(e, ball, beams) ==
    LET ballDone == IF e.discoBall # "null" THEN DiscoBallDisposed(ball) ELSE ball
        beamsDone == IF e.lightBeamSystem # "null" THEN LbsDisposed(beams) ELSE beams
    IN  << [discoBall |-> ball, lightBeamSystem |-> beams],
           [discoBall |-> ballDone, lightBeamSystem |-> beams],
           [discoBall |-> ballDone, lightBeamSystem |-> beamsDone] >>

\* RenderEngine.dispose(): the engine after the call.
EngineDisposed(e) ==
    [e EXCEPT !.animationId = 0,
              !.discoBall = "null",
              !.lightBeamSystem = "null",
              !.renderer.attached = FALSE,
              !.scene.children = << >>,
              !.isInitialized = FALSE]

----------------------------------------------------------------------------
(* Inputs                                                                  *)

\* Speeds handed to the setters: negative, below minSpeed, inside, above maxSpeed.
SpeedInputs == {50, 2000, 7000}

DirectionInputs == {-2, 0, 3}

\* Frame times: a zero-length frame, one second, a resumed background tab (20 s).
DeltaTimes == {0, PerSecond, 20 * PerSecond}

\* Well-formed patches for setRotationConfig: minSpeed <= maxSpeed, rate >= 0.
RotationConfigPatches ==
    { [minSpeed |-> 1500, maxSpeed |-> 3000],
      [minSpeed |-> 100, maxSpeed |-> 5000],
      [speedTransitionRate |-> 500],
      [speedTransitionRate |-> 50] }

\* Modes handed to setColorMode: the three valid ones and an unknown one.
ColorModeInputs == ColorModes \cup {"bogus"}

OpacityInputs == {-1000, 600, 5000}

IntensityInputs == {-3000, 1500}

AnimationSpeedInputs == {-1000, 50}

\* Where a caller puts the mesh: position (1, 2, 3), rotation (0.1, 0.2, 0.3).
MeshPlacements ==
    { [position |-> <<1000, 2000, 3000>>, rotation |-> <<100, 200, 300>>] }

\* Colours setHSL(Math.random(), 1.0, 0.5) can give: hue 0 and hue 0.5.
RandomColors == {<<1000, 0, 0>>, <<0, 1000, 1000>>}

\* Outcomes of the Math.random() draws of one updateColors() call.
RandomDraws == {NoReroll, [reroll |-> TRUE, color |-> <<0, 1000, 1000>>]}

\* Viewports: a desktop window, a phone, a tablet.
Desktop == [width |-> 1280, height |-> 720, pixelRatio |-> 1000]

Phone == [width |-> 400, height |-> 800, pixelRatio |-> 3000]

Tablet == [width |-> 768, height |-> 1024, pixelRatio |-> 2000]

Viewports == {Desktop, Phone, Tablet}

\* More viewports for device detection: the 1024 breakpoint, a pixel area of
\* exactly 1920x1080 and one above it, the 480 breakpoint at density 2, and a
\* wide window at density 3.
SmallDesktop == [width |-> 1024, height |-> 768, pixelRatio |-> 1000]

FullHD == [width |-> 1920, height |-> 1080, pixelRatio |-> 1000]

Retina == [width |-> 1920, height |-> 1080, pixelRatio |-> 2000]

SmallPhone == [width |-> 480, height |-> 800, pixelRatio |-> 2000]

Dense == [width |-> 1440, height |-> 900, pixelRatio |-> 3000]

DeviceViewports ==
    Viewports \cup {SmallDesktop, FullHD, Retina, SmallPhone, Dense}

UserAgents == {"desktop", "iphone"}

\* Time between two animation frames: 4 ms, 17 ms, a quarter of a second.
FrameGaps == {4 * PerMs, 17 * PerMs, 250 * PerMs}

\* Rates handed to setFrameRate: below 30, inside, above 120.
FrameRateInputs == {10, 45, 500}

\* The Math.random() draws one updateColors() call of lbs can make: it draws
\* only in random mode, once per beam.
Draws(lbs) ==
    IF lbs.config.colorMode = "random" /\ Len(lbs.beams) > 0
    THEN RandomDraws
    ELSE {NoReroll}

Call(op, arg) == [op |-> op, arg |-> arg, again |-> FALSE]

\* One more operation is called: op(arg); again tells whether the call
\* before it was of the same operation.
Called(op, arg) ==
    /\ calls < budget
    /\ calls' = calls + 1
    /\ budget' = budget
    /\ lastCall' = [Call(op, arg) EXCEPT !.again = (lastCall.op = op)]

----------------------------------------------------------------------------
(* Operations on a stand-alone DiscoBall                                   *)

updateRotation(deltaTime) ==
    /\ discoBall' = UpdateRotation(discoBall, deltaTime)
    /\ Called("updateRotation", deltaTime)
    /\ UNCHANGED <<renderEngine, host>>
    /\ updates' = updates + 1
    /\ UNCHANGED <<lightBeamSystem, disposed, fault>>

setRotationSpeed(speed) ==
    /\ discoBall' = SetRotationSpeed(discoBall, speed)
    /\ Called("setRotationSpeed", speed)
    /\ UNCHANGED <<renderEngine, host>>
    /\ UNCHANGED <<lightBeamSystem, disposed, fault, updates>>

setRotationSpeedImmediate(speed) ==
    /\ discoBall' = SetRotationSpeedImmediate(discoBall, speed)
    /\ Called("setRotationSpeedImmediate", speed)
    /\ UNCHANGED <<renderEngine, host>>
    /\ UNCHANGED <<lightBeamSystem, disposed, fault, updates>>

setRotationDirection(direction) ==
    /\ discoBall' = SetRotationDirection(discoBall, direction)
    /\ Called("setRotationDirection", direction)
    /\ UNCHANGED <<renderEngine, host>>
    /\ UNCHANGED <<lightBeamSystem, disposed, fault, updates>>

stopRotation ==
    /\ discoBall' = SetRotationSpeed(discoBall, 0)
    /\ Called("stopRotation", 0)
    /\ UNCHANGED <<renderEngine, host>>
    /\ UNCHANGED <<lightBeamSystem, disposed, fault, updates>>

stopRotationImmediate ==
    /\ discoBall' = SetRotationSpeedImmediate(discoBall, 0)
    /\ Called("stopRotationImmediate", 0)
    /\ UNCHANGED <<renderEngine, host>>
    /\ UNCHANGED <<lightBeamSystem, disposed, fault, updates>>

setRotationConfig(patch) ==
    /\ discoBall' = SetRotationConfig(discoBall, patch)
    /\ Called("setRotationConfig", patch)
    /\ UNCHANGED <<renderEngine, host>>
    /\ UNCHANGED <<lightBeamSystem, disposed, fault, updates>>

----------------------------------------------------------------------------
(* Specification of the rotation controller                                *)

InitRotation ==
    /\ discoBall = NewDiscoBall(BallConfig(MaxHoles))
    /\ lightBeamSystem = NoLightBeamSystem
    /\ host = NewHost(Desktop, "desktop")
    /\ renderEngine = NewRenderEngine(host)
    /\ disposed = {}
    /\ fault = FALSE
    /\ lastCall = Call("new DiscoBall", MaxHoles)
    /\ calls = 0
    /\ budget = MaxCalls
    /\ updates = 0

NextRotation ==
    \/ \E dt \in DeltaTimes : updateRotation(dt)
    \/ \E s \in SpeedInputs : setRotationSpeed(s)
    \/ \E s \in SpeedInputs : setRotationSpeedImmediate(s)
    \/ \E d \in DirectionInputs : setRotationDirection(d)
    \/ stopRotation
    \/ stopRotationImmediate
    \/ \E p \in RotationConfigPatches : setRotationConfig(p)

SpecRotation == InitRotation /\ [][NextRotation]_vars

----------------------------------------------------------------------------
(* Specification of a speed transition left to run: setRotationSpeed and   *)
(* setRotationConfig among the first calls, then updateRotation with       *)
(* deltaTime > 0 again and again                                           *)

\* A frame time of 2 s: with the default rate of 0.05 per second a step of
\* the interpolation is then at least one thousandth wherever the speeds
\* differ by more than the tolerance.  One frame time keeps the yaw reached
\* after n updates, and with it the state space, linear in n.
SettleDeltaTimes == {2 * PerSecond}

InitSettle ==
    /\ discoBall = NewDiscoBall(BallConfig(MaxHoles))
    /\ lightBeamSystem = NoLightBeamSystem
    /\ host = NewHost(Desktop, "desktop")
    /\ renderEngine = NewRenderEngine(host)
    /\ disposed = {}
    /\ fault = FALSE
    /\ lastCall = Call("new DiscoBall", MaxHoles)
    /\ calls = 0
    /\ budget = MaxSpeedChanges + MaxSettleUpdates
    /\ updates = 0

KeepUpdating == \E dt \in SettleDeltaTimes : updateRotation(dt)

NextSettle ==
    \/ \E s \in SpeedInputs : calls < MaxSpeedChanges /\ setRotationSpeed(s)
    \/ \E p \in RotationConfigPatches :
          calls < MaxSpeedChanges /\ setRotationConfig(p)
    \/ KeepUpdating

\* updateRotation keeps being called: the render loop calls it on every
\* frame that is due.
SpecSettle == InitSettle /\ [][NextSettle]_vars /\ WF_vars(KeepUpdating)

----------------------------------------------------------------------------
(* Operations on a DiscoBall and the LightBeamSystem constructed on it     *)

generateHoles ==
    /\ discoBall' = [discoBall EXCEPT !.holes = GenerateHoles(discoBall.config)]
    /\ Called("generateHoles", 0)
    /\ UNCHANGED <<renderEngine, host>>
    /\ UNCHANGED <<lightBeamSystem, disposed, fault, updates>>

DiscoBall_dispose ==
    /\ discoBall.constructed
    /\ discoBall' = DiscoBallDisposed(discoBall)
    /\ disposed' = disposed \cup DiscoBallReleases(discoBall)
    /\ Called("DiscoBall.dispose", 0)
    /\ UNCHANGED <<renderEngine, host>>
    /\ UNCHANGED <<lightBeamSystem, fault, updates>>

update(deltaTime, rnd) ==
    /\ lightBeamSystem.constructed
    /\ lightBeamSystem' = LbsUpdate(lightBeamSystem, discoBall, deltaTime, rnd)
    /\ Called("update", deltaTime)
    /\ UNCHANGED <<renderEngine, host>>
    /\ UNCHANGED <<discoBall, disposed, fault, updates>>

syncWithDiscoBall ==
    /\ lightBeamSystem.constructed
    /\ lightBeamSystem' =
          [lightBeamSystem EXCEPT !.beams = SyncWithDiscoBall(lightBeamSystem, discoBall)]
    /\ Called("syncWithDiscoBall", 0)
    /\ UNCHANGED <<renderEngine, host>>
    /\ UNCHANGED <<discoBall, disposed, fault, updates>>

setColorMode(mode) ==
    /\ lightBeamSystem.constructed
    /\ lightBeamSystem' = SetColorMode(lightBeamSystem, mode)
    /\ Called("setColorMode", mode)
    /\ UNCHANGED <<renderEngine, host>>
    /\ UNCHANGED <<discoBall, disposed, fault, updates>>

setIntensity(intensity) ==
    /\ lightBeamSystem.constructed
    /\ lightBeamSystem' = SetIntensity(lightBeamSystem, intensity)
    /\ Called("setIntensity", intensity)
    /\ UNCHANGED <<renderEngine, host>>
    /\ UNCHANGED <<discoBall, disposed, fault, updates>>

setOpacity(opacity) ==
    /\ lightBeamSystem.constructed
    /\ lightBeamSystem' = SetOpacity(lightBeamSystem, opacity)
    /\ Called("setOpacity", opacity)
    /\ UNCHANGED <<renderEngine, host>>
    /\ UNCHANGED <<discoBall, disposed, fault, updates>>

setAnimationSpeed(speed) ==
    /\ lightBeamSystem.constructed
    /\ lightBeamSystem' = SetAnimationSpeed(lightBeamSystem, speed)
    /\ Called("setAnimationSpeed", speed)
    /\ UNCHANGED <<renderEngine, host>>
    /\ UNCHANGED <<discoBall, disposed, fault, updates>>

setVisible(visible) ==
    /\ lightBeamSystem.constructed
    /\ lightBeamSystem' = SetVisible(lightBeamSystem, visible)
    /\ Called("setVisible", visible)
    /\ UNCHANGED <<renderEngine, host>>
    /\ UNCHANGED <<discoBall, disposed, fault, updates>>

\* The caller moves and turns the mesh it got from getMesh(), as
\* testSyncWithDiscoBall does: position.set(...), rotation.set(...).
placeMesh(position, rotation) ==
    /\ discoBall.mesh.ref # "null"
    /\ discoBall' = [discoBall EXCEPT !.mesh.position = position,
                                      !.mesh.rotation = rotation]
    /\ Called("placeMesh", <<position, rotation>>)
    /\ UNCHANGED <<renderEngine, host>>
    /\ UNCHANGED <<lightBeamSystem, disposed, fault, updates>>

LightBeamSystem_dispose ==
    /\ lightBeamSystem.constructed
    /\ lightBeamSystem' = LbsDisposed(lightBeamSystem)
    /\ disposed' = disposed \cup LbsReleases(lightBeamSystem)
    /\ Called("LightBeamSystem.dispose", 0)
    /\ UNCHANGED <<renderEngine, host>>
    /\ UNCHANGED <<discoBall, fault, updates>>

----------------------------------------------------------------------------
(* Specification of the beam system on its DiscoBall                       *)

InitBeams ==
    /\ \E n \in 0..MaxHoles : discoBall = NewDiscoBall(BallConfig(n))
    /\ \E c \in RandomColors : lightBeamSystem = NewLightBeamSystem(discoBall, DefaultBeamConfig, c)
    /\ host = NewHost(Desktop, "desktop")
    /\ renderEngine = NewRenderEngine(host)
    /\ disposed = {}
    /\ fault = FALSE
    /\ lastCall = Call("new LightBeamSystem", Len(discoBall.holes))
    /\ calls = 0
    /\ budget = MaxBeamCalls
    /\ updates = 0

NextBeams ==
    \/ \E dt \in DeltaTimes : updateRotation(dt)
    \/ generateHoles
    \/ DiscoBall_dispose
    \/ \E dt \in DeltaTimes, rnd \in RandomDraws : update(dt, rnd)
    \/ syncWithDiscoBall
    \/ \E m \in ColorModeInputs : setColorMode(m)
    \/ \E v \in IntensityInputs : setIntensity(v)
    \/ \E v \in OpacityInputs : setOpacity(v)
    \/ \E v \in AnimationSpeedInputs : setAnimationSpeed(v)
    \/ \E b \in BOOLEAN : setVisible(b)
    \/ LightBeamSystem_dispose
    \/ \E m \in MeshPlacements : placeMesh(m.position, m.rotation)

SpecBeams == InitBeams /\ [][NextBeams]_vars

----------------------------------------------------------------------------
(* Operations on a RenderEngine in its host                                *)

\* init(): webgl tells whether new THREE.WebGLRenderer succeeds; when it
\* throws, the catch block returns false with what was built so far.
\* createDiscoBall() asks for EngineHoles apertures, of which the model
\* builds the first MaxHoles. The beam system just built is in rainbow
\* mode, where updateColors() draws no random number.
init(webgl, randomColor) ==
    LET scene == CreateScene
        camera == CreateCamera(host)
        renderer == CreateRenderer(renderEngine.responsiveConfig, host)
        ball == NewDiscoBall([radius |-> GetBallRadius(renderEngine.deviceInfo),
                              segments |-> GetBallSegments(renderEngine.deviceInfo),
                              holes |-> Min(EngineHoles, MaxHoles)])
        beams == NewLightBeamSystem(ball, GetLightBeamConfig(renderEngine.deviceInfo),
                                    randomColor)
        filled == SceneAdd(SceneAdd(SetupLighting(scene),
                      SceneObject("Mesh", FALSE, "true", 0, ball.geometry, ball.material)),
                      SceneObject("Group", FALSE, "false", 0, "null", "null"))
        built == [renderEngine EXCEPT !.scene = filled,
                                      !.camera = camera,
                                      !.renderer = renderer,
                                      !.discoBall = "DiscoBall",
                                      !.lightBeamSystem = "LightBeamSystem",
                                      !.isInitialized = TRUE]
        listening == [host EXCEPT !.canvases = @ + 1, !.resizeListener = TRUE]
        started == StartRenderLoop(built, listening, ball, beams, NoReroll)
        fresh == {renderer.ref} \cup DiscoBallReleases(ball) \cup LbsReleases(beams)
    IN  /\ Called("init", webgl)
        /\ IF webgl
           THEN /\ renderEngine' = started.engine
                /\ host' = started.host
                /\ discoBall' = started.discoBall
                /\ lightBeamSystem' = started.lightBeamSystem
                /\ updates' = updates + started.turns
                /\ disposed' = disposed \ fresh
           ELSE /\ renderEngine' = [renderEngine EXCEPT !.scene = scene,
                                                         !.camera = camera]
                /\ UNCHANGED <<host, discoBall, lightBeamSystem, updates, disposed>>
        /\ UNCHANGED fault

startRenderLoop(rnd) ==
    LET started == StartRenderLoop(renderEngine, host, discoBall, lightBeamSystem, rnd)
    IN  /\ Called("startRenderLoop", 0)
        /\ renderEngine' = started.engine
        /\ host' = started.host
        /\ discoBall' = started.discoBall
        /\ lightBeamSystem' = started.lightBeamSystem
        /\ updates' = updates + started.turns
        /\ UNCHANGED <<disposed, fault>>

stopRenderLoop ==
    LET stopped == StopRenderLoop(renderEngine, host)
    IN  /\ Called("stopRenderLoop", 0)
        /\ renderEngine' = stopped.engine
        /\ host' = stopped.host
        /\ UNCHANGED <<discoBall, lightBeamSystem, disposed, fault, updates>>

\* The host runs the callback of request id, elapsed after the last one:
\* render(currentTime) with the host's clock.
animationFrame(id, elapsed, rnd) ==
    LET now == host.now + elapsed
        run == Render(renderEngine,
                      [host EXCEPT !.requests = @ \ {id}, !.now = now],
                      discoBall, lightBeamSystem, now, rnd)
    IN  /\ id \in host.requests
        /\ Called("render", now)
        /\ renderEngine' = run.engine
        /\ host' = run.host
        /\ discoBall' = run.discoBall
        /\ lightBeamSystem' = run.lightBeamSystem
        /\ updates' = updates + run.turns
        /\ UNCHANGED <<disposed, fault>>

\* The window takes the size of viewport and onWindowResize() runs.
onWindowResize(viewport) ==
    LET resized == Resized(host, viewport)
    IN  /\ Called("onWindowResize", viewport)
        /\ host' = resized
        /\ fault' = (fault \/ OnWindowResizeThrows(renderEngine))
        /\ renderEngine' = IF OnWindowResizeThrows(renderEngine)
                           THEN UpdateDeviceInfo(renderEngine, resized)
                           ELSE OnWindowResize(renderEngine, resized)
        /\ UNCHANGED <<discoBall, lightBeamSystem, disposed, updates>>

setFrameRate(fps) ==
    /\ Called("setFrameRate", fps)
    /\ renderEngine' = SetFrameRate(renderEngine, fps)
    /\ UNCHANGED <<host, discoBall, lightBeamSystem, disposed, fault, updates>>

RenderEngine_dispose ==
    LET stopped == StopRenderLoop(renderEngine, host)
        steps == DisposeSteps(renderEngine, discoBall, lightBeamSystem)
    IN  /\ Called("RenderEngine.dispose", 0)
        /\ renderEngine' = EngineDisposed(stopped.engine)
        /\ host' = [stopped.host EXCEPT
                       !.resizeListener = FALSE,
                       !.canvases = IF renderEngine.renderer.attached THEN @ - 1 ELSE @]
        /\ discoBall' = steps[Len(steps)].discoBall
        /\ lightBeamSystem' = steps[Len(steps)].lightBeamSystem
        /\ disposed' = disposed
              \cup (IF renderEngine.discoBall # "null"
                    THEN DiscoBallReleases(discoBall) ELSE {})
              \cup (IF renderEngine.lightBeamSystem # "null"
                    THEN LbsReleases(lightBeamSystem) ELSE {})
              \cup EngineReleases(renderEngine)
        /\ UNCHANGED <<fault, updates>>

----------------------------------------------------------------------------
(* Specification of the render engine in its host                          *)

InitEngine ==
    /\ \E v \in Viewports, ua \in UserAgents : host = NewHost(v, ua)
    /\ renderEngine = NewRenderEngine(host)
    /\ discoBall = NoDiscoBall
    /\ lightBeamSystem = NoLightBeamSystem
    /\ disposed = {}
    /\ fault = FALSE
    /\ lastCall = Call("new RenderEngine", 0)
    /\ calls = 0
    /\ budget = MaxEngineCalls
    /\ updates = 0

NextEngine ==
    \/ \E webgl \in BOOLEAN, c \in RandomColors : init(webgl, c)
    \/ \E rnd \in Draws(lightBeamSystem) : startRenderLoop(rnd)
    \/ stopRenderLoop
    \/ \E id \in host.requests, gap \in FrameGaps, rnd \in Draws(lightBeamSystem) :
          animationFrame(id, gap, rnd)
    \/ \E v \in Viewports : onWindowResize(v)
    \/ \E fps \in FrameRateInputs : setFrameRate(fps)
    \/ RenderEngine_dispose
    \/ DiscoBall_dispose
    \/ LightBeamSystem_dispose

SpecEngine == InitEngine /\ [][NextEngine]_vars

----------------------------------------------------------------------------
(* Specification of device detection: an engine that is constructed,      *)
(* initialized and resized over the wider set of viewports                 *)

InitDevice ==
    /\ \E v \in DeviceViewports, ua \in UserAgents : host = NewHost(v, ua)
    /\ renderEngine = NewRenderEngine(host)
    /\ discoBall = NoDiscoBall
    /\ lightBeamSystem = NoLightBeamSystem
    /\ disposed = {}
    /\ fault = FALSE
    /\ lastCall = Call("new RenderEngine", 0)
    /\ calls = 0
    /\ budget = MaxDeviceCalls
    /\ updates = 0

NextDevice ==
    \/ \E webgl \in BOOLEAN, c \in RandomColors : init(webgl, c)
    \/ \E v \in DeviceViewports : onWindowResize(v)

SpecDevice == InitDevice /\ [][NextDevice]_vars

----------------------------------------------------------------------------
(* Claims about the rotation controller                                    *)

rc == discoBall.rotationConfig

\* v brought into [lo, hi]: lo below it, hi above it, v itself inside.
ClampedInto(v, lo, hi) == IF v < lo THEN lo ELSE IF v > hi THEN hi ELSE v

Sign(d) == IF d > 0 THEN 1 ELSE IF d < 0 THEN -1 ELSE 0

SpeedWithinBounds(db) ==
    /\ db.rotationConfig.minSpeed <= db.rotationSpeed
    /\ db.rotationSpeed <= db.rotationConfig.maxSpeed

\* C1: in every state reached after the first updateRotation call, under any
\* interleaving of the speed, direction and config setters and updateRotation,
\* minSpeed <= rotationSpeed <= maxSpeed.
C1_SpeedWithinBoundsAfterFirstUpdate ==
    updates >= 1 => SpeedWithinBounds(discoBall)

C3_UpdateMovesTowardTarget ==
    [][ lastCall'.op = "updateRotation" =>
          LET old == discoBall.rotationSpeed
              new == discoBall'.rotationSpeed
              tgt == discoBall.targetRotationSpeed
          IN  /\ discoBall'.targetRotationSpeed = tgt
              /\ old <= tgt => (old <= new /\ new <= tgt)
              /\ old >= tgt => (tgt <= new /\ new <= old)
              /\ Abs(new - tgt) <= Abs(old - tgt)
      ]_vars

\* A state after two partial steps from 1.0 toward the target 5.0.
C3_Witness ==
    /\ lastCall.op = "updateRotation"
    /\ lastCall.arg > 0
    /\ updates >= 2
    /\ discoBall.targetRotationSpeed = DefaultMaxSpeed
    /\ discoBall.rotationSpeed > InitialRotationSpeed
    /\ discoBall.rotationSpeed < DefaultMaxSpeed

\* C4: after setRotationSpeed(s) with s inside [minSpeed, maxSpeed] followed by
\* setRotationDirection(d), with no updateRotation in between,
\* getRotationState() reports speed == s and direction == sign(d).
C4_StateReportsSpeedAndDirection ==
    [][ ( /\ lastCall.op = "setRotationSpeed"
          /\ rc.minSpeed <= lastCall.arg
          /\ lastCall.arg <= rc.maxSpeed
          /\ lastCall'.op = "setRotationDirection"
          /\ lastCall'.arg # 0 ) =>
          /\ GetRotationState(discoBall').speed = lastCall.arg
          /\ GetRotationState(discoBall').direction = Sign(lastCall'.arg)
      ]_vars

\* C5: rotationDirection is +1 or -1 in every reachable state, and
\* setRotationDirection(d) for nonzero d sets it to sign(d) without an error and
\* without changing the speed, the target speed or the angles.
C5_DirectionNormalized ==
    [][ /\ discoBall.rotationDirection \in {1, -1}
        /\ discoBall'.rotationDirection \in {1, -1}
        /\ (lastCall'.op = "setRotationDirection" /\ lastCall'.arg # 0) =>
              /\ discoBall'.rotationDirection = Sign(lastCall'.arg)
              /\ discoBall'.rotationSpeed = discoBall.rotationSpeed
              /\ discoBall'.targetRotationSpeed = discoBall.targetRotationSpeed
              /\ discoBall'.currentRotation = discoBall.currentRotation
              /\ ~fault'
      ]_vars

\* A state right after setRotationDirection(-2) on a ball that has turned.
C5_Witness ==
    /\ lastCall.op = "setRotationDirection"
    /\ lastCall.arg < -1
    /\ discoBall.rotationDirection = -1
    /\ discoBall.currentRotation.y > 0

----------------------------------------------------------------------------
(* Claims about the beam system                                            *)

\* getBeamCount()
GetBeamCount(lbs) == Len(lbs.beams)

\* getHoles()
GetHoles(db) == db.holes

\* dispose() has been called on the instance (neither class re-creates these).
BallDisposed == discoBall.constructed /\ discoBall.geometry = "null"

BeamsDisposed == lightBeamSystem.constructed /\ lightBeamSystem.beamGeometry = "null"

\* C6 as stated: in every reachable state after the LightBeamSystem has been
\* constructed, also after either object's dispose() and after generateHoles()
\* is run again, getBeamCount() equals getHoles().length.
C6_BeamCountEqualsHoleCountAlways ==
    lightBeamSystem.constructed =>
        GetBeamCount(lightBeamSystem) = Len(GetHoles(discoBall))

\* C6 as amended: the same, in the states in which neither object's dispose()
\* has been called (generateHoles() may have been run again).
C6_BeamCountEqualsHoleCount ==
    (lightBeamSystem.constructed /\ ~BallDisposed /\ ~BeamsDisposed) =>
        /\ GetBeamCount(lightBeamSystem) = Len(GetHoles(discoBall))
        /\ GetBeamCount(lightBeamSystem) = discoBall.config.holes

\* A state after generateHoles() was run again on a ball with apertures.
C6_Witness ==
    /\ lastCall.op = "generateHoles"
    /\ ~BallDisposed /\ ~BeamsDisposed
    /\ GetBeamCount(lightBeamSystem) = MaxHoles
    /\ MaxHoles > 0

\* C7: setColorMode(m) with m outside {rainbow, random, white} raises no error
\* and leaves colorMode and every other field of the beam system as it was;
\* with m in the set, colorMode becomes m.
C7_ColorModeValidated ==
    [][ lastCall'.op = "setColorMode" =>
          /\ ~fault'
          /\ lastCall'.arg \notin {"rainbow", "random", "white"} =>
                lightBeamSystem' = lightBeamSystem
          /\ lastCall'.arg \in {"rainbow", "random", "white"} =>
                lightBeamSystem'.config.colorMode = lastCall'.arg
      ]_vars

\* A state right after setColorMode('bogus') on a system set to 'white' before.
C7_Witness ==
    /\ lastCall.op = "setColorMode"
    /\ lastCall.arg = "bogus"
    /\ lightBeamSystem.config.colorMode = "white"
    /\ GetBeamCount(lightBeamSystem) > 0

UniformsAgree(lbs, uniform, value) ==
    \A k \in 1..Len(lbs.beams) : lbs.beams[k].material.uniforms[uniform] = value

\* C8: setOpacity(v) stores v clamped into [0, 1], setIntensity(v) and
\* setAnimationSpeed(v) store max(0, v), none raising an error; after
\* setOpacity or setIntensity every beam's uniform of that name equals the
\* stored config value.
C8_SettersClampAndPropagate ==
    [][ /\ lastCall'.op = "setOpacity" =>
              /\ lightBeamSystem'.config.beamOpacity = ClampedInto(lastCall'.arg, 0, Milli)
              /\ UniformsAgree(lightBeamSystem', "opacity",
                               lightBeamSystem'.config.beamOpacity)
              /\ ~fault'
        /\ lastCall'.op = "setIntensity" =>
              /\ lightBeamSystem'.config.beamIntensity
                    = (IF lastCall'.arg < 0 THEN 0 ELSE lastCall'.arg)
              /\ UniformsAgree(lightBeamSystem', "intensity",
                               lightBeamSystem'.config.beamIntensity)
              /\ ~fault'
        /\ lastCall'.op = "setAnimationSpeed" =>
              /\ lightBeamSystem'.config.animationSpeed
                    = (IF lastCall'.arg < 0 THEN 0 ELSE lastCall'.arg)
              /\ ~fault'
      ]_vars

\* A state right after setOpacity(5) on a system with beams: opacity is 1 in
\* the config and in the uniforms.
C8_Witness ==
    /\ lastCall.op = "setOpacity"
    /\ lastCall.arg > Milli
    /\ GetBeamCount(lightBeamSystem) > 0
    /\ lightBeamSystem.config.beamOpacity = Milli
    /\ UniformsAgree(lightBeamSystem, "opacity", Milli)

----------------------------------------------------------------------------
(* Claims about disposal                                                   *)

IsDispose(op) ==
    op \in {"DiscoBall.dispose", "LightBeamSystem.dispose", "RenderEngine.dispose"}

\* Everything the three classes and their host hold.
program == <<discoBall, lightBeamSystem, renderEngine, host, disposed, fault>>

\* init() never got as far as a renderer.
NeverInitialized(e) == e.renderer.ref = "null"

\* C9: dispose() called a second time on a DiscoBall, a LightBeamSystem or a
\* RenderEngine (directly twice in a row, or on a component straight after
\* the engine that held it disposed it) does not fault and changes nothing,
\* the geometry and material references staying null; dispose() on an engine
\* whose init() never completed does not fault and leaves it uninitialized,
\* holding no disco ball, no beam system and no animation-frame request.
C9_SecondDisposeChangesNothing ==
    [][ /\ IsDispose(lastCall'.op) => ~fault'
        /\ ( /\ lastCall'.op = "DiscoBall.dispose"
             /\ lastCall.op \in {"DiscoBall.dispose", "RenderEngine.dispose"} ) =>
              /\ UNCHANGED program
              /\ discoBall'.geometry = "null"
              /\ discoBall'.material = "null"
        /\ ( /\ lastCall'.op = "LightBeamSystem.dispose"
             /\ lastCall.op \in {"LightBeamSystem.dispose", "RenderEngine.dispose"} ) =>
              /\ UNCHANGED program
              /\ lightBeamSystem'.beamGeometry = "null"
              /\ lightBeamSystem'.beamMaterial = "null"
        /\ (lastCall'.op = "RenderEngine.dispose" /\ lastCall.op = "RenderEngine.dispose") =>
              /\ UNCHANGED program
              /\ discoBall'.constructed =>
                    discoBall'.geometry = "null" /\ discoBall'.material = "null"
              /\ lightBeamSystem'.constructed =>
                    /\ lightBeamSystem'.beamGeometry = "null"
                    /\ lightBeamSystem'.beamMaterial = "null"
        /\ (lastCall'.op = "RenderEngine.dispose" /\ NeverInitialized(renderEngine)) =>
              /\ ~renderEngine'.isInitialized
              /\ renderEngine'.discoBall = "null"
              /\ renderEngine'.lightBeamSystem = "null"
              /\ renderEngine'.animationId = 0
              /\ host'.requests = {}
      ]_vars

\* An initialized engine has been disposed twice in a row, its disco ball and
\* beam system with it.
C9_Witness ==
    /\ lastCall.op = "RenderEngine.dispose"
    /\ lastCall.again
    /\ ~NeverInitialized(renderEngine)
    /\ discoBall.constructed
    /\ lightBeamSystem.constructed
    /\ {"WebGLRenderer", "SphereGeometry", "CylinderGeometry"} \subseteq disposed

\* C10: once dispose() has returned, a LightBeamSystem holds no beam geometry,
\* beam material, beam, beam-group child or disco ball, and a RenderEngine
\* holds no scene, camera, renderer, disco ball or beam system.
C10_DisposedInstanceHoldsNothing ==
    /\ lastCall.op = "LightBeamSystem.dispose" =>
          /\ lightBeamSystem.beamGeometry = "null"
          /\ lightBeamSystem.beamMaterial = "null"
          /\ lightBeamSystem.beams = << >>
          /\ lightBeamSystem.beamGroup.children = 0
          /\ lightBeamSystem.discoBall = "null"
    /\ lastCall.op = "RenderEngine.dispose" =>
          /\ renderEngine.scene.ref = "null"
          /\ renderEngine.camera.ref = "null"
          /\ renderEngine.renderer.ref = "null"
          /\ renderEngine.discoBall = "null"
          /\ renderEngine.lightBeamSystem = "null"

\* C11: while RenderEngine.dispose() runs, the beam system drops its beams
\* before the disco ball is disposed: at no point of the call do beams exist
\* on a disco ball that has already been disposed.
C11_BeamsDroppedBeforeBall ==
    [][ lastCall'.op = "RenderEngine.dispose" =>
          \A k \in 1..Len(DisposeSteps(renderEngine, discoBall, lightBeamSystem)) :
              LET at == DisposeSteps(renderEngine, discoBall, lightBeamSystem)[k]
              IN  ~( /\ at.discoBall.constructed
                     /\ at.discoBall.geometry = "null"
                     /\ Len(at.lightBeamSystem.beams) > 0 )
      ]_vars

----------------------------------------------------------------------------
(* Claims about the render loop                                            *)

\* C12: stopRenderLoop() never faults and leaves animationId null with no
\* animation-frame request pending; called again straight after itself it
\* changes nothing; a render tick only runs while a loop is running, and a
\* stopped loop gets a request again only from startRenderLoop() (which
\* init() calls).
C12_StopRenderLoopIdempotent ==
    [][ /\ lastCall'.op = "stopRenderLoop" =>
              /\ ~fault'
              /\ renderEngine'.animationId = 0
              /\ host'.requests = {}
              /\ lastCall.op = "stopRenderLoop" => UNCHANGED program
        /\ lastCall'.op = "render" => renderEngine.animationId # 0
        /\ (host.requests = {} /\ host'.requests # {}) =>
              lastCall'.op \in {"startRenderLoop", "init"}
      ]_vars

\* A running loop has been stopped twice in a row.
C12_Witness ==
    /\ lastCall.op = "stopRenderLoop"
    /\ lastCall.again
    /\ renderEngine.isInitialized
    /\ host.nextRequest > 1

\* render(currentTime) finds its frame due.
FrameDue(e, currentTime) == currentTime - e.lastTime >= e.frameInterval

\* C13: every render tick requests the next tick; updateAnimations runs
\* exactly when the time since lastTime is at least frameInterval, and the
\* renderer draws only then; a skipped tick changes nothing of the engine but
\* animationId, and nothing of the disco ball or the beam system.
C13_TickPacing ==
    [][ lastCall'.op = "render" =>
          /\ renderEngine'.animationId \in host'.requests
          /\ renderEngine'.animationId \notin host.requests
          /\ host'.animated # host.animated <=> FrameDue(renderEngine, lastCall'.arg)
          /\ host'.rendered # host.rendered => FrameDue(renderEngine, lastCall'.arg)
          /\ ~FrameDue(renderEngine, lastCall'.arg) =>
                /\ renderEngine' =
                      [renderEngine EXCEPT !.animationId = renderEngine'.animationId]
                /\ UNCHANGED <<discoBall, lightBeamSystem, updates>>
      ]_vars

\* Two ticks in a row on an initialized engine: one did its work and drew,
\* the other came too early and was skipped.
C13_Witness ==
    /\ lastCall.op = "render"
    /\ lastCall.again
    /\ renderEngine.isInitialized
    /\ host.rendered = 1
    /\ renderEngine.lastTime > 0
    /\ lastCall.arg - renderEngine.lastTime >= 4 * PerMs
    /\ lastCall.arg - renderEngine.lastTime < renderEngine.frameInterval

----------------------------------------------------------------------------
(* Claims about the quality profile                                        *)

\* The lights of the scene that have a shadow setting.
ShadowLights(e) ==
    {k \in 1..Len(e.scene.children) :
        e.scene.children[k].isLight /\ e.scene.children[k].castShadow # "undefined"}

\* Every light follows the profile's shadow setting and shadow-map size.
LightsFollowProfile(e) ==
    \A k \in ShadowLights(e) :
        /\ e.scene.children[k].castShadow
              = (IF e.responsiveConfig.enableShadows THEN "true" ELSE "false")
        /\ e.scene.children[k].shadowMapSize # 0 =>
              e.scene.children[k].shadowMapSize = e.responsiveConfig.shadowMapSize

\* Renderer, fog, camera and frame rate are those of the current profile.
ProfileApplied(e) ==
    /\ e.renderer.pixelRatio = e.responsiveConfig.pixelRatio
    /\ e.renderer.shadowMapEnabled = e.responsiveConfig.enableShadows
    /\ e.scene.fog = e.responsiveConfig.enableFog
    /\ e.camera.fov = e.responsiveConfig.fov
    /\ e.camera.z = e.responsiveConfig.cameraDistance
    /\ e.frameRate = e.responsiveConfig.targetFPS

\* The step is an onWindowResize on an initialized engine that changes the
\* quality tier or the screen-size breakpoint.
ProfileChanges ==
    /\ lastCall'.op = "onWindowResize"
    /\ renderEngine.isInitialized
    /\ \/ renderEngine'.deviceInfo.screenSize # renderEngine.deviceInfo.screenSize
       \/ renderEngine'.deviceInfo.performanceLevel
             # renderEngine.deviceInfo.performanceLevel

\* C14: after an onWindowResize on an initialized engine that changes the
\* tier or the breakpoint, pixel ratio, shadow enablement, fog, field of view,
\* camera distance and frame rate are those of the new profile, and so are the
\* shadow setting and shadow-map size of every light of the scene.
C14_ResizeAppliesWholeProfile ==
    [][ ProfileChanges =>
          ProfileApplied(renderEngine') /\ LightsFollowProfile(renderEngine')
      ]_vars

\* The part the code does reapply on such a resize: everything but the lights.
ResizeAppliesRendererAndCamera ==
    [][ ProfileChanges => ProfileApplied(renderEngine') ]_vars

\* C15: the profile is never partially applied: a successful init() leaves
\* frame rate, fog, field of view, camera distance, shadow enablement and
\* pixel ratio equal to the current responsiveConfig, and every later
\* onWindowResize keeps them equal to it.
C15_ProfileAlwaysApplied ==
    [][ /\ (lastCall'.op = "init" /\ lastCall'.arg) =>
              ProfileApplied(renderEngine')
        /\ ( /\ lastCall'.op = "onWindowResize"
             /\ renderEngine.isInitialized
             /\ ProfileApplied(renderEngine) ) =>
              ProfileApplied(renderEngine')
      ]_vars

\* The second half of C15 alone: onWindowResize keeps an applied profile applied.
ResizeKeepsProfileApplied ==
    [][ ( /\ lastCall'.op = "onWindowResize"
          /\ renderEngine.isInitialized
          /\ ProfileApplied(renderEngine) ) =>
          ProfileApplied(renderEngine')
      ]_vars

\* The breakpoint a window of this width belongs to.
BreakpointOf(width) ==
    IF width <= 480 THEN "mobile"
    ELSE IF width <= 768 THEN "tablet"
    ELSE IF width <= 1024 THEN "small-desktop"
    ELSE "desktop"

\* The tier of a window of this size and density (in thousandths) on a
\* mobile or other device.
TierOf(width, height, density, mobile) ==
    IF width <= 480 /\ density > 2 * Milli THEN "low"
    ELSE IF \/ mobile
            \/ density > 2 * Milli
            \/ width * height * (density \div 100) > 2073600 * 10
         THEN "medium"
         ELSE "high"

\* C16: after construction and after every onWindowResize on an initialized
\* engine, deviceInfo has the breakpoint and the tier of the window as it is
\* now.
C16_DeviceInfoReflectsViewport ==
    (calls = 0 \/ (lastCall.op = "onWindowResize" /\ renderEngine.isInitialized)) =>
        /\ renderEngine.deviceInfo.width = host.innerWidth
        /\ renderEngine.deviceInfo.height = host.innerHeight
        /\ renderEngine.deviceInfo.screenSize = BreakpointOf(host.innerWidth)
        /\ renderEngine.deviceInfo.performanceLevel =
              TierOf(host.innerWidth, host.innerHeight, host.devicePixelRatio,
                     host.userAgent = "iphone")

\* An initialized engine on a desktop browser was resized to a window whose
\* pixel area alone brings the tier down to medium.
C16_Witness ==
    /\ lastCall.op = "onWindowResize"
    /\ lastCall.arg = Retina
    /\ renderEngine.isInitialized
    /\ host.userAgent = "desktop"
    /\ renderEngine.deviceInfo.performanceLevel = "medium"
    /\ renderEngine.deviceInfo.screenSize = "desktop"

----------------------------------------------------------------------------
(* Claims about initialization                                             *)

\* C17: init() never throws; when it returns false the engine holds no scene,
\* camera, renderer, disco ball or beam system, the container has no canvas,
\* no resize listener is registered and no animation-frame request is pending.
C17_FailedInitLeavesNothing ==
    [][ lastCall'.op = "init" =>
          /\ ~fault'
          /\ ~lastCall'.arg =>
                /\ renderEngine'.scene.ref = "null"
                /\ renderEngine'.camera.ref = "null"
                /\ renderEngine'.renderer.ref = "null"
                /\ renderEngine'.discoBall = "null"
                /\ renderEngine'.lightBeamSystem = "null"
                /\ host'.canvases = 0
                /\ ~host'.resizeListener
                /\ host'.requests = {}
      ]_vars

----------------------------------------------------------------------------
(* Claims about beam placement                                             *)

\* C18: after syncWithDiscoBall() on a beam system whose disco ball has its
\* mesh, every beam i sits at the mesh's current orientation applied to
\* aperture i's position plus the mesh's position, and is turned by the
\* rotation of the up axis onto the mesh's orientation applied to aperture
\* i's direction.
C18_SyncPlacesEveryBeam ==
    [][ ( /\ lastCall'.op = "syncWithDiscoBall"
          /\ lightBeamSystem.discoBall # "null"
          /\ discoBall.mesh.ref # "null" ) =>
          \A k \in 1..Len(lightBeamSystem'.beams) :
              /\ k <= Len(discoBall.holes)
              /\ lightBeamSystem'.beams[k].mesh.position =
                    [v |-> discoBall.holes[k].position,
                     rot |-> discoBall.mesh.rotation,
                     offset |-> discoBall.mesh.position]
              /\ lightBeamSystem'.beams[k].mesh.quaternion =
                    [from |-> "up",
                     to |-> discoBall.holes[k].direction,
                     rot |-> discoBall.mesh.rotation]
      ]_vars

\* The ball has turned and syncWithDiscoBall() has placed both beams with
\* the new orientation.
C18_Witness ==
    /\ lastCall.op = "syncWithDiscoBall"
    /\ discoBall.mesh.ref # "null"
    /\ discoBall.mesh.rotation # <<0, 0, 0>>
    /\ Len(lightBeamSystem.beams) = MaxHoles
    /\ \A k \in 1..Len(lightBeamSystem.beams) :
          lightBeamSystem.beams[k].mesh.position.rot = discoBall.mesh.rotation

\* C19: after syncWithDiscoBall() on a beam system whose disco ball has its
\* mesh, the beam group's own position is the mesh's position and its own
\* rotation is the mesh's rotation.
C19_SyncMovesBeamGroup ==
    [][ ( /\ lastCall'.op = "syncWithDiscoBall"
          /\ lightBeamSystem.discoBall # "null"
          /\ discoBall.mesh.ref # "null" ) =>
          /\ lightBeamSystem'.beamGroup.position = discoBall.mesh.position
          /\ lightBeamSystem'.beamGroup.rotation = discoBall.mesh.rotation
      ]_vars

----------------------------------------------------------------------------
(* Claims about the apertures                                              *)

\* C20: generateHoles() leaves exactly config.holes apertures, none when that
\* is 0, without a fault; the aperture at index i has id i and its position
\* is its direction scaled by the radius; run on a ball that has its
\* apertures, it leaves a list identical to the one it found.
C20_GenerateHolesExact ==
    [][ lastCall'.op = "generateHoles" =>
          /\ ~fault'
          /\ Len(GetHoles(discoBall')) = discoBall.config.holes
          /\ \A k \in 1..Len(GetHoles(discoBall')) :
                /\ GetHoles(discoBall')[k].id = k - 1
                /\ GetHoles(discoBall')[k].position =
                      [unit |-> GetHoles(discoBall')[k].direction,
                       scale |-> discoBall.config.radius]
          /\ Len(GetHoles(discoBall)) = discoBall.config.holes =>
                GetHoles(discoBall') = GetHoles(discoBall)
      ]_vars

\* generateHoles() has been run twice in a row on a ball with MaxHoles
\* apertures.
C20_Witness ==
    /\ lastCall.op = "generateHoles"
    /\ lastCall.again
    /\ discoBall.mesh.ref # "null"
    /\ discoBall.config.holes = MaxHoles
    /\ Len(GetHoles(discoBall)) = MaxHoles

----------------------------------------------------------------------------
(* Claims about beam colours                                               *)

\* C21: after an update() made in white mode every beam's currentColor and
\* colour uniform are exactly white, whatever colour the beam had before.
C21_WhiteModeIsExactlyWhite ==
    [][ (lastCall'.op = "update" /\ lightBeamSystem.config.colorMode = "white") =>
          \A k \in 1..Len(lightBeamSystem'.beams) :
              /\ lightBeamSystem'.beams[k].currentColor = White
              /\ lightBeamSystem'.beams[k].material.uniforms.color = White
      ]_vars

\* Values of colorOffset + colorTime, in thousandths: negative, zero, around
\* the palette steps, around 1 and beyond.
RainbowTimes ==
    {-2500, -1001, -1000, -999, -500, -1, 0, 1, 166, 167, 333, 499, 500, 501,
     833, 834, 999, 1000, 1001, 2999}

\* updateColors() has just run in rainbow mode at colour time 0.
ColouredAtTimeZero ==
    /\ lightBeamSystem.constructed
    /\ lightBeamSystem.config.colorMode = "rainbow"
    /\ lightBeamSystem.colorTime = 0
    /\ calls = 0 \/ lastCall.op = "update"

\* C22: when updateColors() has run in rainbow mode at colour time 0, the beam
\* with colour offset 0 has exactly the first palette colour and the beam
\* with offset 0.5 exactly the colour at palette position 3; and for every
\* offset + colour time, negative ones too, both palette indices used are
\* within 0..6.
C22_RainbowAtTimeZero ==
    /\ ColouredAtTimeZero =>
          \A k \in 1..Len(lightBeamSystem.beams) :
              /\ lightBeamSystem.beams[k].colorOffset = 0 =>
                    lightBeamSystem.beams[k].currentColor = RainbowColors[1]
              /\ lightBeamSystem.beams[k].colorOffset = 500 =>
                    lightBeamSystem.beams[k].currentColor = RainbowColors[4]
    /\ \A t \in RainbowTimes :
          /\ RainbowLowerIndex(t) \in 0..6
          /\ RainbowUpperIndex(t) \in 0..6

\* What getRainbowColor itself returns: the first palette colour at 0, the
\* colour at palette position 3 at 0.5, and indices within 0..6 throughout.
RainbowTargetsExact ==
    /\ GetRainbowColor(0) = RainbowColors[1]
    /\ GetRainbowColor(500) = RainbowColors[4]
    /\ \A t \in RainbowTimes :
          /\ RainbowLowerIndex(t) \in 0..6
          /\ RainbowUpperIndex(t) \in 0..6

----------------------------------------------------------------------------
(* Claims about the roll angle and about stopping                          *)

\* C23: the roll left by every updateRotation is sin(2*yaw) * zAxisFactor *
\* yawDelta of that call alone, whatever the roll was before; so an update
\* whose yaw increment is 0 leaves the roll at 0.
C23_RollNotAccumulated ==
    [][ lastCall'.op = "updateRotation" =>
          LET yaw      == discoBall'.currentRotation.y
              yawDelta == yaw - discoBall.currentRotation.y
          IN  discoBall'.currentRotation.z =
                  Mul(Mul(Sin(yaw * 2), discoBall'.rotationConfig.zAxisFactor),
                      yawDelta)
      ]_vars

----------------------------------------------------------------------------
(* Claims about the order of a tick                                        *)

\* Every beam sits where syncWithDiscoBall() puts it for the ball's current
\* orientation.
BeamsFollowBall ==
    \A k \in 1..Len(lightBeamSystem.beams) :
        /\ lightBeamSystem.beams[k].mesh.position =
              Placed(discoBall.holes[k].position, discoBall.mesh.rotation,
                     discoBall.mesh.position)
        /\ lightBeamSystem.beams[k].mesh.quaternion =
              FromUp(discoBall.holes[k].direction, discoBall.mesh.rotation)

\* The render() call just made was not skipped by the frame-rate test.
TickWorked ==
    lastCall.op = "render" /\ host.frame # << >>

\* C24 as the specification has it: a tick that is not skipped advances the
\* rotation, then synchronizes the beams, then updates the colours, then
\* draws, and what it draws has every beam synchronized with the orientation
\* set in that tick, as long as the ball has its mesh.
C24_TickOrderSyncBeforeColours ==
    TickWorked =>
        /\ host.frame = <<"updateRotation", "syncWithDiscoBall",
                          "updateColors", "renderer.render">>
        /\ discoBall.mesh.ref # "null" => BeamsFollowBall

\* C24: a tick that is not skipped advances the rotation, then updates the
\* colours, then synchronizes the beams, then draws, and what it draws has
\* every beam synchronized with the orientation set in that tick, as long as
\* the ball has its mesh.
C24_TickOrder ==
    TickWorked =>
        /\ host.frame = <<"updateRotation", "updateColors",
                          "syncWithDiscoBall", "renderer.render">>
        /\ discoBall.mesh.ref # "null" => BeamsFollowBall

\* A tick has turned the ball, placed both beams with the new orientation
\* and drawn.
C24_Witness ==
    /\ TickWorked
    /\ host.rendered > 0
    /\ discoBall.mesh.ref # "null"
    /\ discoBall.mesh.rotation # <<0, 0, 0>>
    /\ Len(lightBeamSystem.beams) = MaxHoles

----------------------------------------------------------------------------
(* Claims about reaching the target speed                                  *)

\* rotationSpeed is the target and getRotationState() reports no transition.
Settled ==
    /\ discoBall.rotationSpeed = discoBall.targetRotationSpeed
    /\ ~GetRotationState(discoBall).isTransitioning

\* C25: once the last setRotationSpeed has been made and updateRotation keeps
\* being called with deltaTime > 0, rotationSpeed comes to equal the target
\* that call stored, exactly, and isTransitioning becomes and stays false.
C25_SpeedSettles == <>[]Settled

\* setRotationSpeed moved the target to the upper bound, and updates at the
\* default rate have brought the speed to it step by step.
C25_Witness ==
    /\ lastCall.op = "updateRotation"
    /\ discoBall.rotationConfig = DefaultRotationConfig
    /\ discoBall.targetRotationSpeed = DefaultMaxSpeed
    /\ Settled
    /\ updates > MaxSettleUpdates \div 2

----------------------------------------------------------------------------
(* Claims about stopping the rotation                                      *)

\* C26: stopRotationImmediate() leaves rotationSpeed and targetRotationSpeed
\* at 0, and the updateRotation that follows it leaves yaw, pitch and roll as
\* they are; stopRotation() leaves the target at 0, the speed that repeated
\* updates then reach.
C26_StopStops ==
    [][ /\ lastCall'.op = "stopRotationImmediate" =>
              /\ discoBall'.rotationSpeed = 0
              /\ discoBall'.targetRotationSpeed = 0
        /\ lastCall'.op = "stopRotation" =>
              discoBall'.targetRotationSpeed = 0
        /\ ( /\ lastCall.op = "stopRotationImmediate"
             /\ lastCall'.op = "updateRotation" ) =>
              discoBall'.currentRotation = discoBall.currentRotation
      ]_vars

----------------------------------------------------------------------------
(* Claims about the animation-frame requests                               *)

\* C27: at most one animation-frame request of the engine is outstanding, and
\* animationId is the id of that request, or null when there is none.
C27_OneRequestOutstanding ==
    /\ Cardinality(host.requests) <= 1
    /\ host.requests = IF renderEngine.animationId = 0
                       THEN {}
                       ELSE {renderEngine.animationId}

\* The loop has been started a second time while a request was outstanding,
\* and one request, the newest, is outstanding.
C27_Witness ==
    /\ lastCall.op = "startRenderLoop"
    /\ lastCall.again
    /\ host.nextRequest > 2
    /\ host.requests = {host.nextRequest - 1}

----------------------------------------------------------------------------
(* Claims about an engine that is not initialized                          *)

\* dispose() has run on an engine that init() had set up, and init() has not
\* succeeded since: the renderer is still referenced, isInitialized is false.
EngineIsDisposed ==
    ~renderEngine.isInitialized /\ renderEngine.renderer.ref # "null"

\* The step is a call on the engine that is not init().
EngineStepOtherThanInit ==
    lastCall'.op \in {"startRenderLoop", "render", "stopRenderLoop",
                      "onWindowResize", "setFrameRate", "RenderEngine.dispose"}

\* A resize event on an engine that is not initialized changes nothing of it.
ResizeInert ==
    (lastCall'.op = "onWindowResize" /\ ~renderEngine.isInitialized) =>
        renderEngine' = renderEngine /\ ~fault'

\* C28: a resize event changes nothing of an engine that is not initialized,
\* and once dispose() has run, and for as long as init() is not called again,
\* no render tick runs and no rotation, colour or beam update is made.
C28_DisposedEngineNeverTicks ==
    [][ /\ ResizeInert
        /\ (EngineIsDisposed /\ EngineStepOtherThanInit) =>
              /\ lastCall'.op # "render"
              /\ updates' = updates
              /\ lightBeamSystem' = lightBeamSystem
      ]_vars

\* What does hold: a resize event changes nothing of an engine that is not
\* initialized; dispose() leaves no animation-frame request behind; and as
\* long as the engine is not initialized no call on it other than init(), a
\* render tick that startRenderLoop() has set going again included, makes a
\* rotation, colour or beam update or draws.
UninitializedEngineUpdatesNothing ==
    [][ /\ ResizeInert
        /\ lastCall'.op = "RenderEngine.dispose" => host'.requests = {}
        /\ (~renderEngine.isInitialized /\ EngineStepOtherThanInit) =>
              /\ updates' = updates
              /\ discoBall'.currentRotation = discoBall.currentRotation
              /\ lightBeamSystem'.beams = lightBeamSystem.beams
              /\ lightBeamSystem'.colorTime = lightBeamSystem.colorTime
              /\ host'.rendered = host.rendered
              /\ lastCall'.op \in {"startRenderLoop", "render"} =>
                    host'.frame = << >>
      ]_vars

\* startRenderLoop() has set the loop going on a disposed engine and a tick
\* that was due has run and asked for the next one.
DisposedEngineTicked ==
    /\ EngineIsDisposed
    /\ lastCall.op = "render"
    /\ renderEngine.lastTime > 0
    /\ host.frame = << >>
    /\ host.requests # {}

----------------------------------------------------------------------------
(* Claims about frame pacing                                               *)

\* C29: in every state of the engine 30 <= frameRate <= 120 and frameInterval
\* is one second divided by frameRate, whatever setFrameRate was given and
\* whatever profile a resize applied.
C29_FrameRateWithinBounds ==
    /\ MinFrameRate <= renderEngine.frameRate
    /\ renderEngine.frameRate <= MaxFrameRate
    /\ renderEngine.frameInterval * renderEngine.frameRate = PerSecond

\* setFrameRate was given a rate above the upper bound, on an engine whose
\* profile asks for a rate other than the default.
C29_Witness ==
    /\ lastCall.op = "setFrameRate"
    /\ lastCall.arg > MaxFrameRate
    /\ renderEngine.frameRate = MaxFrameRate
    /\ renderEngine.responsiveConfig.targetFPS # DefaultFrameRate

\* C30: after every render tick the sum of the deltaTime values handed to
\* updateAnimations so far is at most the tick's timestamp, and the deltaTime
\* handed over by the tick, if any, is at least frameInterval.
C30_AnimationTimeNotAhead ==
    [][ lastCall'.op = "render" =>
          /\ host'.animated <= lastCall'.arg
          /\ host'.animated # host.animated =>
                host'.animated - host.animated >= renderEngine.frameInterval
      ]_vars

====
